---- MODULE Spec2Model ----
(***************************************************************************)
(* OpenManus web interface (src/app/web_interface.py) and MCPAgent         *)
(* (src/app/agent/mcp.py) as a state machine.                              *)
(*                                                                         *)
(* Every websocket connection runs one websocket_endpoint coroutine (the   *)
(* "handler") and, per prompt, one asyncio task running MCPAgent.run (the  *)
(* "run").  asyncio is cooperative: code between two awaits is one atomic  *)
(* step.  The suspension points kept by the model are the awaits that wait *)
(* for the outside world: receive_text, agent.initialize, agent.cleanup,   *)
(* the first send_json of process_agent_response, `await task`, the        *)
(* list_tools round trip of _refresh_tools and the external step function  *)
(* (super().think() and act()).                                            *)
(***************************************************************************)
EXTENDS Integers, Sequences, FiniteSets, TLC

\* ---------------------------------------------------------------- bounds
NumConns == 2          \* websocket connections opened during a behaviour
NumFingerprints == 2   \* distinct schema fingerprints of a tool
\* MCPAgent.max_steps is a configurable field of the agent (default 20,
\* mcp.py line 30).  The model gives the agents a smaller step budget:
\* max_steps where one session's run is followed through its refresh
\* (AgentSpec), web_max_steps where several connections interleave (Spec).
max_steps == 6
web_max_steps == 2
MaxChain == 2             \* interceptors chained on logger.info when a think begins
MaxCallbacks == 2      \* thinking callbacks on an agent when a prompt is accepted
MaxObservers == 3      \* thinking callbacks registered on one agent
MaxFiles == 2          \* files in the history directory
MaxPairs == 2          \* user/assistant message pairs of a conversation

\* ------------------------------------------------------ program constants
refresh_tools_interval == 5

Conns == 1..NumConns
\* Client ids are interchangeable: connection c chooses among the first c.
Ids == Conns
ToolNames == {"a", "b", "c"}
Fingerprints == 1..NumFingerprints

\* A tool snapshot: tool name -> schema fingerprint (tool.name: tool.inputSchema).
SnapshotsOver(names) == UNION {[S -> Fingerprints] : S \in SUBSET names}
AllSnapshots == SnapshotsOver(ToolNames)
\* The tool list of a capability server whose tools never change.
SteadySnapshots == {[n \in {"a"} |-> 1]}
EmptySnapshot == <<>>

VARIABLES
    pc,                  \* position of each connection's websocket_endpoint coroutine
    cid,                 \* client id in the URL of each connection (0: not connected yet)
    inbox,               \* cancel events the client has sent that receive_text has not returned yet
    active_connections,  \* client id -> connection          (0: no entry)
    active_agents,       \* client id -> agent (= its connection) (0: no entry)
    active_tasks,        \* client id -> run task (= its connection) (0: no entry)
    cancel_flags,        \* client id -> "absent" | "False" | "True"
    agent,               \* the MCPAgent of each connection
    task,                \* the asyncio task running agent.run of each connection
    sent,                \* outbound events of the current run attempt, per connection
    hist,                \* observations of the current run attempt, per connection
    lastRefresh,         \* the diff computed by the latest _refresh_tools
    history,             \* the files of HISTORY_DIR, what was saved, and what
                         \* get_conversation returned since the latest save
    logger               \* the info function of the global logger, and who was
                         \* notified of the latest thought logged through it

vars == <<pc, cid, inbox, active_connections, active_agents, active_tasks,
          cancel_flags, agent, task, sent, hist, lastRefresh, history, logger>>

tables == <<active_connections, active_agents, active_tasks, cancel_flags>>

\* MCPAgent() as constructed at web_interface.py line 231.
NewAgent(budget) ==
    [state |-> "IDLE", current_step |-> 0, max_steps |-> budget,
     cancelled |-> FALSE, has_cancel_run |-> FALSE, mcp |-> "nosession",
     tool_map |-> {}, tool_schemas |-> EmptySnapshot,
     thinking_callbacks |-> <<>>, special_tool_names |-> {"terminate"}]

NoTask == [st |-> "none", cancelReq |-> FALSE, outcome |-> "none",
           reason |-> "none", prev_state |-> "IDLE", original_log_info |-> <<>>]

NoSent == [response |-> 0, error |-> 0, ack |-> 0]

\* Observations of one run attempt (not program state): what happened to the
\* run and what process_agent_response made of it.
NoAttempt ==
    [cancelRunCalled |-> FALSE, stepAfterCancel |-> FALSE, lastStep |-> "none",
     refreshedEmpty |-> FALSE, refreshFailed |-> FALSE, steps |-> 0,
     delivered |-> "none", outcome |-> "none", reason |-> "none",
     notifiedOn |-> <<>>, notified |-> <<>>, refreshedAt |-> 0,
     lastTool |-> "none", toolFinished |-> FALSE]

NoHist ==
    [att |-> NoAttempt, ownCancel |-> "none", initFailed |-> FALSE]

NoRefresh == [agent |-> 0, prev |-> EmptySnapshot, cur |-> EmptySnapshot,
              added |-> {}, removed |-> {}, changed |-> {}]

InFlight == {"created", "refresh", "think", "act"}

\* logger.info is a chain of interceptors around the original function: the
\* connections whose think installed them, the outermost last; <<>> is
\* the original function of the logger.
NoThought == [from |-> 0, to |-> {}]
NoLogger == [info |-> <<>>, thought |-> NoThought]

\* HISTORY_DIR is empty; nothing has been saved or read back.
NoConversation == [id |-> "None", client_id |-> 0, messages |-> <<>>]
NoHistory == [dir |-> {}, saved |-> {},
              got |-> [id |-> "nothing", found |-> FALSE, data |-> NoConversation]]

Init ==
    /\ pc = [c \in Conns |-> "new"]
    /\ cid = [c \in Conns |-> 0]
    /\ inbox = [c \in Conns |-> <<>>]
    /\ active_connections = [i \in Ids |-> 0]
    /\ active_agents = [i \in Ids |-> 0]
    /\ active_tasks = [i \in Ids |-> 0]
    /\ cancel_flags = [i \in Ids |-> "absent"]
    /\ agent = [c \in Conns |-> NewAgent(0)]
    /\ task = [c \in Conns |-> NoTask]
    /\ sent = [c \in Conns |-> NoSent]
    /\ hist = [c \in Conns |-> NoHist]
    /\ lastRefresh = NoRefresh
    /\ history = NoHistory
    /\ logger = NoLogger


\* ------------------------------------------------------- MCPAgent (mcp.py)

\* _refresh_tools, lines 113-124: the three difference lists.
AddedTools(prev, cur) == DOMAIN cur \ DOMAIN prev
RemovedTools(prev, cur) == DOMAIN prev \ DOMAIN cur
\* (a comparison-free variant: every tool present in both lists counts as changed)
ChangedToolsAllCommon(prev, cur) == (DOMAIN cur) \cap (DOMAIN prev)
ChangedTools(prev, cur) ==
    {n \in (DOMAIN cur) \cap (DOMAIN prev) : cur[n] # prev[n]}

\* _refresh_tools, lines 109-127, once list_tools has returned `cur` to agent a.
RefreshDiff(a, prev, cur) ==
    [agent |-> a, prev |-> prev, cur |-> cur,
     added |-> AddedTools(prev, cur),
     removed |-> RemovedTools(prev, cur),
     changed |-> ChangedTools(prev, cur)]

\* (an update in place: the fetched entries are written into the old snapshot)
StoreSchemasInPlace(ag, cur) ==
    [ag EXCEPT !.tool_schemas =
        [n \in (DOMAIN @) \cup (DOMAIN cur) |->
            IF n \in DOMAIN cur THEN cur[n] ELSE @[n]]]
\* _refresh_tools, line 127: the snapshot is replaced as a whole.
StoreSchemas(ag, cur) == [ag EXCEPT !.tool_schemas = cur]

\* add_thinking_callback, lines 88-90.  A callback is known by whether it
\* raises when it is called (TRUE) or returns (FALSE).
AddThinkingCallback(ag, raises) ==
    [ag EXCEPT !.thinking_callbacks = Append(@, raises)]

RECURSIVE NotifyFrom(_, _, _)
\* (a notification without the try/except around the call of a callback)
NotifyUnguarded(cbs, k, log) ==
    IF k > Len(cbs) THEN [invoked |-> log, raised |-> FALSE]
    ELSE IF cbs[k] THEN [invoked |-> Append(log, k), raised |-> TRUE]
    ELSE NotifyFrom(cbs, k + 1, Append(log, k))
\* The for loop of _notify_thinking, lines 94-98, from the k-th callback on:
\* the callback is called and an exception it raises is caught and logged.
NotifyFrom(cbs, k, log) ==
    IF k > Len(cbs) THEN [invoked |-> log, raised |-> FALSE]
    ELSE NotifyFrom(cbs, k + 1, Append(log, k))

\* _notify_thinking, lines 92-98: the callbacks it called, in the order of
\* the calls, and whether an exception left it.
NotifyThinking(ag) == NotifyFrom(ag.thinking_callbacks, 1, <<>>)

\* (a cancel_run that only logs)
CancelRunLogsOnly(ag) == ag
\* cancel_run, lines 227-230.
CancelRun(ag) == [ag EXCEPT !.cancelled = TRUE, !.state = "FINISHED"]

\* (the while condition with the budget test off by one)
LoopCondOffByOne(ag) ==
    /\ ag.current_step <= ag.max_steps
    /\ ag.state # "FINISHED"
    /\ ~ag.cancelled
\* The while condition of run, lines 262-266.
LoopCond(ag) ==
    /\ ag.current_step < ag.max_steps
    /\ ag.state # "FINISHED"
    /\ ~ag.cancelled

\* Names of the tools a step may call, configurations of special_tool_names
\* (line 38 is the default), and str.lower on these names.
ToolCallNames == {"terminate", "Terminate", "finish", "Finish", "bash"}
ToolConfigs == {{"terminate"}, {"finish"}, {"Terminate", "finish"}, {}}
Lower(name) ==
    CASE name = "Terminate" -> "terminate"
      [] name = "Finish" -> "finish"
      [] OTHER -> name

\* ToolCallAgent._is_special_tool: the name is in special_tool_names,
\* case-insensitively.
IsSpecialTool(ag, name) ==
    Lower(name) \in {Lower(n) : n \in ag.special_tool_names}

\* _should_finish_execution, lines 199-202.
ShouldFinishExecution(name) == Lower(name) = "terminate"

\* _handle_special_tool, lines 186-189: the handler of ToolCallAgent sets the
\* state to FINISHED for a special tool that _should_finish_execution accepts.
HandleSpecialTool(ag, name) ==
    IF IsSpecialTool(ag, name) /\ ShouldFinishExecution(name)
    THEN [ag EXCEPT !.state = "FINISHED"] ELSE ag

\* The refresh test of think, line 156.
RefreshDue(ag) == ag.current_step % refresh_tools_interval = 0

\* The availability test of think, lines 150 and 159.
ServiceGone(ag) == ag.mcp # "session" \/ ag.tool_map = {}

RunResult(ag, st, outcome, reason) ==
    [ag |-> ag, st |-> st, outcome |-> outcome, reason |-> reason]

\* (a run without its finally)
KeepCancelAttrs(ag) == ag
\* finally of run, lines 308-313.
DeleteCancelAttrs(ag) == [ag EXCEPT !.has_cancel_run = FALSE]

\* Leaving `async with self.state_context(RUNNING)`: the state the agent had
\* before the run is put back (BaseAgent.state_context).
ExitStateContext(ag, prev) == [ag EXCEPT !.state = prev]

\* The loop has ended without an exception: lines 287-303, then the finally.
EndLoop(ag, prev) ==
    IF ~ag.cancelled /\ NotifyThinking(ag).raised
    THEN RunResult(DeleteCancelAttrs(ExitStateContext(ag, prev)), "done",
                   "error_result", "callback")
    ELSE
    RunResult(DeleteCancelAttrs(ExitStateContext(ag, prev)), "done",
              IF ag.cancelled THEN "cancelled_result" ELSE "ok",
              IF ag.cancelled THEN "cancelled"
              ELSE IF ag.state = "FINISHED" THEN "finished" ELSE "budget")

\* An exception raised inside the loop: caught at lines 305-307, the run
\* returns the text "error: ..." as its result.
RaiseInLoop(ag, prev) ==
    RunResult(DeleteCancelAttrs(ExitStateContext(ag, prev)), "done",
              "error_result", "exception")

\* CancelledError thrown into the run at its await: `except Exception` does
\* not catch it, the finally runs and the task ends cancelled.
CancelledInLoop(ag, prev) ==
    RunResult(DeleteCancelAttrs(ExitStateContext(ag, prev)), "done",
              "CancelledError", "interrupted")

RECURSIVE LoopHead(_, _)

\* Lines 276-285 after step() has returned, then back to the while condition.
AfterStep(ag, prev) ==
    IF ag.cancelled THEN EndLoop(ag, prev) ELSE LoopHead(ag, prev)

\* think, lines 158-162, after _refresh_tools has returned.
AfterRefresh(ag, prev) ==
    IF ag.tool_map = {}
    THEN AfterStep([ag EXCEPT !.state = "FINISHED"], prev)
    ELSE RunResult(ag, "think", "none", "none")

\* Lines 272-274 and think up to its first await (lines 150-157, 165-181).
EnterStep(ag, prev) ==
    LET ag1 == [ag EXCEPT !.current_step = @ + 1] IN
    IF ag1.mcp = "none" THEN RaiseInLoop(ag1, prev)
    ELSE IF ServiceGone(ag1)
    THEN AfterStep([ag1 EXCEPT !.state = "FINISHED"], prev)
    ELSE IF RefreshDue(ag1) THEN RunResult(ag1, "refresh", "none", "none")
    ELSE RunResult(ag1, "think", "none", "none")

LoopHead(ag, prev) ==
    IF LoopCond(ag) THEN EnterStep(ag, prev) ELSE EndLoop(ag, prev)

\* run from its first line to its first await, lines 212-274.  The
\* notification of line 217 is outside the try of line 236.
BeginRun(ag) ==
    IF ag.mcp = "none"
    THEN RunResult(ag, "done", "raised", "notinitialized")
    ELSE IF NotifyThinking(ag).raised
    THEN RunResult(ag, "done", "raised", "callback")
    ELSE LoopHead([ag EXCEPT !.cancelled = FALSE, !.has_cancel_run = TRUE,
                             !.current_step = 0, !.state = "RUNNING"],
                  ag.state)


\* ------------------------------------------- ChatHistory (web_interface.py)

\* uuid4 values, message texts, and the chat_messages lists of N
\* user/assistant pairs that websocket_endpoint builds (lines 264-281).
HistoryIds == {"u1", "u2", "u3"}
Contents == {"p", "q"}
Pair(x, y) == <<[role |-> "user", content |-> x],
                [role |-> "assistant", content |-> y]>>
RECURSIVE ConversationsOf(_)
ConversationsOf(n) ==
    IF n = 0 THEN {<<>>}
    ELSE {conv \o Pair(x, y) : conv \in ConversationsOf(n - 1),
                                x \in Contents, y \in Contents}
Conversations == UNION {ConversationsOf(n) : n \in 1..MaxPairs}

RECURSIVE DumpMessages(_)
\* (a serializer that writes the list from its last message to its first)
DumpMessagesBackwards(msgs) ==
    IF msgs = <<>> THEN <<>>
    ELSE DumpMessages(Tail(msgs))
         \o <<"{", "role", Head(msgs).role, "content", Head(msgs).content, "}">>
\* json.dump of the messages list (line 64): the text of the file, token by
\* token, one object per message in list order.
DumpMessages(msgs) ==
    IF msgs = <<>> THEN <<>>
    ELSE <<"{", "role", Head(msgs).role, "content", Head(msgs).content, "}">>
         \o DumpMessages(Tail(msgs))

\* json.dump of history_data, lines 54-64.
JsonDump(data) ==
    <<"{", "id", data.id, "client_id", data.client_id, "messages", "[">>
    \o DumpMessages(data.messages) \o <<"]", "}">>

RECURSIVE LoadMessages(_)
\* json.load of the text of a messages list (line 95).
LoadMessages(text) ==
    IF text = <<>> THEN <<>>
    ELSE <<[role |-> text[3], content |-> text[5]]>>
         \o LoadMessages(SubSeq(text, 7, Len(text)))

\* json.load of a history file, line 95.
JsonLoad(text) ==
    [id |-> text[3], client_id |-> text[5],
     messages |-> LoadMessages(SubSeq(text, 8, Len(text) - 2))]

\* ChatHistory.save_conversation, lines 47-66: a file named after a new uuid4
\* is written; history_id is returned to the caller.
SaveConversation(client_id, messages, history_id) ==
    /\ Cardinality(history.dir) < MaxFiles
    /\ \A f \in history.dir : f.name # history_id
    /\ history' =
          [history EXCEPT
             !.dir = @ \cup {[name |-> history_id,
                               text |-> JsonDump([id |-> history_id,
                                                  client_id |-> client_id,
                                                  messages |-> messages])]},
             !.saved = @ \cup {[id |-> history_id, client_id |-> client_id,
                                 messages |-> messages]},
             !.got = NoHistory.got]
    /\ UNCHANGED <<pc, cid, inbox, tables, agent, task, sent, hist, lastRefresh, logger>>

\* ChatHistory.get_conversation, lines 90-101: the files are read in the
\* order glob yields them, the first whose "id" is history_id is returned,
\* None when there is none.
GetConversation(history_id) ==
    /\ LET found == {f \in history.dir : JsonLoad(f.text).id = history_id} IN
         \/ /\ found = {}
            /\ history' = [history EXCEPT
                               !.got = [id |-> history_id, found |-> FALSE,
                                        data |-> NoConversation]]
         \/ \E f \in found :
                history' = [history EXCEPT
                               !.got = [id |-> history_id, found |-> TRUE,
                                        data |-> JsonLoad(f.text)]]
    /\ UNCHANGED <<pc, cid, inbox, tables, agent, task, sent, hist, lastRefresh, logger>>

\* ------------------------------------------- the client side of a connection

\* The client writes a cancel event to its websocket, at any time; the event
\* remembers whether the run started by the connection's own prompt was in
\* flight.  It stays unread until the handler is back in receive_text.
ClientSendCancel(c) ==
    /\ pc[c] \in {"recv", "p_sent", "p_await", "p_done", "c_send"}
    /\ inbox[c] = <<>>
    /\ inbox' = [inbox EXCEPT ![c] = <<[type |-> "cancel",
                                        inrun |-> task[c].st \in InFlight]>>]
    /\ UNCHANGED <<pc, cid, tables, agent, task, sent, hist, lastRefresh, history, logger>>

\* Some code registers a callback of its own on the agent of connection c
\* (add_thinking_callback, mcp.py lines 88-90), one that raises or not.
RegisterObserver(c, raises) ==
    /\ pc[c] = "recv" \/ (pc[c] = "p_await" /\ task[c].st = "created")
    /\ Len(agent[c].thinking_callbacks) < MaxObservers
    /\ agent' = [agent EXCEPT ![c] = AddThinkingCallback(@, raises)]
    /\ UNCHANGED <<pc, cid, inbox, tables, task, sent, hist, lastRefresh, history, logger>>

\* The agent of connection c is given a list of special tools other than the
\* default (the field special_tool_names, mcp.py line 38).
ConfigureSpecialTools(c, names) ==
    /\ pc[c] = "init"
    /\ agent[c].special_tool_names # names
    /\ agent' = [agent EXCEPT ![c].special_tool_names = names]
    /\ UNCHANGED <<pc, cid, inbox, tables, task, sent, hist, lastRefresh, history, logger>>

\* --------------------------------------- websocket_endpoint (web_interface.py)

\* Lines 220-237: accept, register the connection and a new agent under the
\* client id of the URL.  Nothing looks at an existing entry.
Connect(c, i, budget) ==
    /\ pc[c] = "new" /\ i <= c
    /\ pc' = [pc EXCEPT ![c] = "init"]
    /\ cid' = [cid EXCEPT ![c] = i]
    /\ active_connections' = [active_connections EXCEPT ![i] = c]
    /\ active_agents' = [active_agents EXCEPT ![i] = c]
    /\ agent' = [agent EXCEPT ![c] = NewAgent(budget)]
    /\ UNCHANGED <<inbox, active_tasks, cancel_flags, task, sent, hist, lastRefresh, history, logger>>

\* Lines 240-254 with MCPAgent.initialize (mcp.py 43-86) succeeding: the
\* connect lists the tools into mcp_clients.tool_map, then _refresh_tools
\* lists them again into tool_schemas.
InitializeOk(c, listed, cur) ==
    /\ pc[c] = "init"
    /\ pc' = [pc EXCEPT ![c] = "recv"]
    /\ agent' = [agent EXCEPT ![c] =
                    StoreSchemas([@ EXCEPT !.mcp = "session",
                                           !.thinking_callbacks = <<>>,
                                           !.tool_map = DOMAIN listed], cur)]
    /\ lastRefresh' = RefreshDiff(c, agent[c].tool_schemas, cur)
    /\ UNCHANGED <<cid, inbox, tables, task, sent, hist, history, logger>>

\* (an initialization failure that is reported and then ignored)
InitializeFailIgnored(c, stage, listed) ==
    /\ pc[c] = "init"
    /\ pc' = [pc EXCEPT ![c] = "recv"]
    /\ agent' = [agent EXCEPT ![c] =
                    IF stage = "connect" THEN @
                    ELSE [@ EXCEPT !.mcp = "session", !.thinking_callbacks = <<>>,
                                   !.tool_map = DOMAIN listed]]
    /\ sent' = [sent EXCEPT ![c].error = 1]
    /\ hist' = [hist EXCEPT ![c].initFailed = TRUE]
    /\ UNCHANGED <<cid, inbox, tables, task, lastRefresh, history, logger>>
\* Lines 243-249 and 330-340: initialize raises, either in the connect
\* (no session) or in the first list_tools of _refresh_tools.  The client is
\* sent an error event at line 245 and, the exception being raised again,
\* another one at line 335; the handler goes to its finally.
InitializeFail(c, stage, listed) ==
    /\ pc[c] = "init"
    /\ pc' = [pc EXCEPT ![c] = "cleanup"]
    /\ agent' = [agent EXCEPT ![c] =
                    IF stage = "connect" THEN @
                    ELSE [@ EXCEPT !.mcp = "session", !.thinking_callbacks = <<>>,
                                   !.tool_map = DOMAIN listed]]
    /\ sent' = [sent EXCEPT ![c].error = 2]
    /\ hist' = [hist EXCEPT ![c].initFailed = TRUE]
    /\ UNCHANGED <<cid, inbox, tables, task, lastRefresh, history, logger>>

\* receive_text raises WebSocketDisconnect (line 326).
Disconnect(c) ==
    /\ pc[c] = "recv"
    /\ pc' = [pc EXCEPT ![c] = "cleanup"]
    /\ inbox' = [inbox EXCEPT ![c] = <<>>]
    /\ UNCHANGED <<cid, tables, agent, task, sent, hist, lastRefresh, history, logger>>

\* MCPAgent.cleanup, mcp.py lines 204-210.
AgentCleanup(ag) ==
    [ag EXCEPT !.mcp = "none", !.tool_map = {}, !.thinking_callbacks = <<>>]

\* The finally of websocket_endpoint, lines 341-364: the agent of this
\* connection is cleaned up and the four entries of the client id deleted.
Cleanup(c) ==
    /\ pc[c] = "cleanup"
    /\ pc' = [pc EXCEPT ![c] = "closed"]
    /\ agent' = [agent EXCEPT ![c] = AgentCleanup(@)]
    /\ active_connections' = [active_connections EXCEPT ![cid[c]] = 0]
    /\ active_agents' = [active_agents EXCEPT ![cid[c]] = 0]
    /\ active_tasks' = [active_tasks EXCEPT ![cid[c]] = 0]
    /\ cancel_flags' = [cancel_flags EXCEPT ![cid[c]] = "absent"]
    /\ UNCHANGED <<cid, inbox, task, sent, hist, lastRefresh, history, logger>>

\* Lines 257-272 and process_agent_response lines 130-140: the client sends a
\* prompt event (after the events it sent before have been read) and it is read, the cancel flag of the client id is reset and the coroutine waits in
\* its first send_json.
RecvPrompt(c) ==
    /\ pc[c] = "recv"
    /\ inbox[c] = <<>>
    /\ Len(agent[c].thinking_callbacks) < MaxCallbacks
    /\ cancel_flags' = [cancel_flags EXCEPT ![cid[c]] = "False"]
    /\ sent' = [sent EXCEPT ![c] = NoSent]
    /\ hist' = [hist EXCEPT ![c].att = NoAttempt]
    /\ pc' = [pc EXCEPT ![c] = "p_sent"]
    /\ UNCHANGED <<cid, inbox, active_connections, active_agents, active_tasks, agent,
                   task, lastRefresh, history, logger>>

\* process_agent_response lines 142-167: the run task is created and stored
\* under the client id, whatever is stored there, and awaited.
ProcStart(c) ==
    /\ pc[c] = "p_sent"
    /\ task' = [task EXCEPT ![c] = [NoTask EXCEPT !.st = "created"]]
    /\ agent' = [agent EXCEPT ![c] = AddThinkingCallback(@, FALSE)]
    /\ active_tasks' = [active_tasks EXCEPT ![cid[c]] = c]
    /\ pc' = [pc EXCEPT ![c] = "p_await"]
    /\ UNCHANGED <<cid, inbox, active_connections, active_agents, cancel_flags,
                   sent, hist, lastRefresh, history, logger>>


\* ------------------------------------------------ the run task (agent.run)

\* logger.info once the run of connection c has left the think it may be in:
\* the finally of lines 182-184 puts back what line 165 saved.
RestoredInfo(c) ==
    IF task[c].st = "think" THEN task[c].original_log_info ELSE logger.info

\* original_log_info of lines 165: what logger.info is when the run of c
\* reaches line 165, which it does when it goes on to `st` = "think".
SavedInfo(c, st) == IF st = "think" THEN RestoredInfo(c) ELSE <<>>

\* The logger once the run of c has gone on to `st`: line 177 installs the
\* interceptor of c around the function line 165 saved; a thought of a think
\* that is over is no longer the latest one being delivered.
LoggerAfter(c, st) ==
    [info |-> IF st = "think" THEN Append(RestoredInfo(c), c)
              ELSE RestoredInfo(c),
     thought |-> IF task[c].st = "think" /\ logger.thought.from = c
                 THEN NoThought ELSE logger.thought]

\* The connections whose callbacks a message "✨ ... thoughts" reaches when it
\* is logged through logger.info: every interceptor of the chain notifies its
\* own agent (lines 169-172) and calls the function it wraps (line 174).
\* _notify_thinking (lines 92-98) reaches somebody when the agent has callbacks.
Listeners(info) ==
    {d \in Conns : /\ \E k \in 1..Len(info) : info[k] = d
                   /\ agent[d].thinking_callbacks # <<>>}

\* The run of connection c has advanced to r: the agent and the task take
\* r's values, a cancellation request thrown into the run is used up, and
\* the attempt's observations become att.
ApplyRun(c, r, att) ==
    /\ r.st = "think" => Len(RestoredInfo(c)) < MaxChain
    /\ agent' = [agent EXCEPT ![c] = r.ag]
    /\ task' = [task EXCEPT ![c] = [@ EXCEPT !.st = r.st, !.outcome = r.outcome,
                                             !.reason = r.reason,
                                             !.cancelReq = FALSE,
                                             !.original_log_info =
                                                 SavedInfo(c, r.st)]]
    /\ logger' = LoggerAfter(c, r.st)
    /\ hist' = [hist EXCEPT ![c].att =
                  [att EXCEPT !.stepAfterCancel =
                      @ \/ (att.cancelRunCalled
                            /\ r.ag.current_step > agent[c].current_step)]]

\* The event loop runs the task for the first time.
RunStart(c) ==
    /\ task[c].st = "created" /\ ~task[c].cancelReq
    /\ BeginRun(agent[c]).st = "think" => Len(RestoredInfo(c)) < MaxChain
    /\ agent' = [agent EXCEPT ![c] = BeginRun(agent[c]).ag]
    /\ task' = [task EXCEPT ![c] =
                  [@ EXCEPT !.st = BeginRun(agent[c]).st,
                            !.outcome = BeginRun(agent[c]).outcome,
                            !.reason = BeginRun(agent[c]).reason,
                            !.prev_state = agent[c].state,
                            !.original_log_info =
                                SavedInfo(c, BeginRun(agent[c]).st)]]
    /\ logger' = LoggerAfter(c, BeginRun(agent[c]).st)
    /\ hist' = [hist EXCEPT
                  ![c].att.notifiedOn = agent[c].thinking_callbacks,
                  ![c].att.notified = NotifyThinking(agent[c]).invoked]
    /\ UNCHANGED <<pc, cid, inbox, tables, sent, lastRefresh, history>>

\* task.cancel() reached the task before its first step: asyncio throws
\* CancelledError into the unstarted coroutine and no line of run executes.
CancelBeforeStart(c) ==
    /\ task[c].st = "created" /\ task[c].cancelReq
    /\ task' = [task EXCEPT ![c] = [@ EXCEPT !.st = "done", !.cancelReq = FALSE,
                                             !.outcome = "CancelledError",
                                             !.reason = "notstarted"]]
    /\ UNCHANGED <<pc, cid, inbox, tables, agent, sent, hist, lastRefresh, history, logger>>

\* list_tools returns `cur` inside think's _refresh_tools (lines 110-127),
\* then think goes on at line 158.
RefreshReturn(c, cur) ==
    /\ task[c].st = "refresh"
    /\ lastRefresh' = RefreshDiff(c, agent[c].tool_schemas, cur)
    /\ ApplyRun(c, AfterRefresh(StoreSchemas(agent[c], cur), task[c].prev_state),
                [hist[c].att EXCEPT !.refreshedEmpty = (DOMAIN cur = {}),
                                    !.refreshedAt = agent[c].current_step])
    /\ UNCHANGED <<pc, cid, inbox, tables, sent, history>>

\* list_tools raises: nothing in _refresh_tools, think or step catches it.
RefreshFail(c) ==
    /\ task[c].st = "refresh"
    /\ ApplyRun(c, RaiseInLoop(agent[c], task[c].prev_state),
                [hist[c].att EXCEPT !.refreshFailed = TRUE])
    /\ UNCHANGED <<pc, cid, inbox, tables, sent, lastRefresh, history>>

\* super().think() returns (line 181): the finally of lines 182-184 puts the
\* saved function back, and step goes on to act().
ThinkReturn(c) ==
    /\ task[c].st = "think"
    /\ task' = [task EXCEPT ![c].st = "act", ![c].original_log_info = <<>>]
    /\ logger' = LoggerAfter(c, "act")
    /\ UNCHANGED <<pc, cid, inbox, tables, agent, sent, hist, lastRefresh, history>>

\* super().think() logs the model's thoughts, "✨ ...'s thoughts: ...", with
\* logger.info while the run of connection c is inside line 181.
LogThought(c) ==
    /\ task[c].st = "think"
    /\ logger' = [logger EXCEPT !.thought = [from |-> c,
                                             to |-> Listeners(logger.info)]]
    /\ UNCHANGED <<pc, cid, inbox, tables, agent, task, sent, hist, lastRefresh,
                   history>>

\* The external step function returns a result that does not end the run.
StepContinue(c) ==
    /\ task[c].st = "act"
    /\ ApplyRun(c, AfterStep(agent[c], task[c].prev_state),
                [hist[c].att EXCEPT !.steps = @ + 1, !.lastStep = "continue"])
    /\ UNCHANGED <<pc, cid, inbox, tables, sent, lastRefresh, history>>

\* The external step function has executed the terminate tool: the agent's
\* state is FINISHED when step returns.
StepTerminate(c) ==
    /\ task[c].st = "act"
    /\ ApplyRun(c, AfterStep([agent[c] EXCEPT !.state = "FINISHED"],
                             task[c].prev_state),
                [hist[c].att EXCEPT !.steps = @ + 1, !.lastStep = "terminate"])
    /\ UNCHANGED <<pc, cid, inbox, tables, sent, lastRefresh, history>>

\* The external step function has called the tool `name` and handed it to
\* _handle_special_tool.
StepToolCall(c, name) ==
    /\ task[c].st = "act"
    /\ LET ag == HandleSpecialTool(agent[c], name)
           fin == ag.state = "FINISHED" IN
         ApplyRun(c, AfterStep(ag, task[c].prev_state),
                  [hist[c].att EXCEPT
                      !.steps = @ + 1,
                      !.lastStep = IF fin THEN "terminate" ELSE "continue",
                      !.lastTool = name, !.toolFinished = fin])
    /\ UNCHANGED <<pc, cid, inbox, tables, sent, lastRefresh, history>>

\* The external step function raises an exception.
StepRaise(c) ==
    /\ task[c].st \in {"think", "act"}
    /\ ApplyRun(c, RaiseInLoop(agent[c], task[c].prev_state),
                [hist[c].att EXCEPT !.lastStep = "raise"])
    /\ UNCHANGED <<pc, cid, inbox, tables, sent, lastRefresh, history>>

\* A requested task cancellation interrupts the await the run is suspended in.
Interrupt(c) ==
    /\ task[c].st \in {"refresh", "think", "act"} /\ task[c].cancelReq
    /\ ApplyRun(c, CancelledInLoop(agent[c], task[c].prev_state),
                [hist[c].att EXCEPT !.lastStep = "interrupted"])
    /\ UNCHANGED <<pc, cid, inbox, tables, sent, lastRefresh, history>>

\* ------------------------------------- the cancel branch, lines 293-324

\* (the test of line 295 without the done() of the task)
TaskRunningAnyEntry(i) == active_tasks[i] # 0
\* The test of line 295.
TaskRunning(i) == active_tasks[i] # 0 /\ task[active_tasks[i]].st # "done"

\* The agent line 300 finds, when it has a cancel_run attribute (line 301).
AgentInUse(i) ==
    IF active_agents[i] # 0 /\ agent[active_agents[i]].has_cancel_run
    THEN active_agents[i] ELSE 0

RecvCancel(c) ==
    /\ pc[c] = "recv"
    /\ inbox[c] # <<>> /\ Head(inbox[c]).type = "cancel"
    /\ inbox' = [inbox EXCEPT ![c] = Tail(@)]
    /\ LET i == cid[c]
           t == active_tasks[i]
           a == AgentInUse(i)
           own == IF ~Head(inbox[c]).inrun THEN "none"
                  ELSE IF TaskRunning(i) /\ t = c THEN "inflight" ELSE "late"
       IN IF TaskRunning(i)
          THEN /\ cancel_flags' = [cancel_flags EXCEPT ![i] = "True"]
               /\ agent' = IF a # 0 THEN [agent EXCEPT ![a] = CancelRun(@)]
                           ELSE agent
               /\ task' = [task EXCEPT ![t].cancelReq = TRUE]
               /\ hist' = [h \in Conns |->
                             [hist[h] EXCEPT
                                !.ownCancel = IF h = c THEN own ELSE @,
                                !.att.cancelRunCalled = @ \/ (h = a)]]
          ELSE /\ hist' = [hist EXCEPT ![c].ownCancel = own]
               /\ UNCHANGED <<cancel_flags, agent, task>>
    /\ pc' = [pc EXCEPT ![c] = "c_send"]
    /\ UNCHANGED <<cid, active_connections, active_agents, active_tasks,
                   sent, lastRefresh, history, logger>>

\* The send_json of line 316 or 321 completes; back to receive_text.
CancelAnswered(c) ==
    /\ pc[c] = "c_send"
    /\ pc' = [pc EXCEPT ![c] = "recv"]
    /\ hist' = [hist EXCEPT ![c].ownCancel = "none"]
    /\ UNCHANGED <<cid, inbox, tables, agent, task, sent, lastRefresh, history, logger>>

\* --------------------- process_agent_response after `await task`, 167-217

\* What the client of the awaiting connection is sent for a finished task:
\* lines 169-174 (nothing), 175-181 and 286-291 (two error events), line 184
\* with the client id's flag deleted (KeyError, then one error event at
\* 286-291), lines 184-189 (the termination notice), lines 191-195.
Delivery(outcome, flag) ==
    IF outcome = "CancelledError" THEN "nothing"
    ELSE IF outcome = "raised" THEN "error_twice"
    ELSE IF flag = "absent" THEN "error"
    ELSE IF flag = "True" THEN "ack"
    ELSE "response"

ProcResume(c) ==
    /\ pc[c] = "p_await" /\ task[c].st = "done"
    /\ LET d == Delivery(task[c].outcome, cancel_flags[cid[c]]) IN
         /\ sent' = [sent EXCEPT
                       ![c].response = @ + (IF d = "response" THEN 1 ELSE 0),
                       ![c].ack = @ + (IF d = "ack" THEN 1 ELSE 0),
                       ![c].error = @ + (IF d = "error" THEN 1
                                         ELSE IF d = "error_twice" THEN 2 ELSE 0)]
         /\ hist' = [hist EXCEPT ![c].att =
                       [NoAttempt EXCEPT !.delivered = d,
                                         !.outcome = task[c].outcome,
                                         !.reason = task[c].reason,
                                         !.lastStep = hist[c].att.lastStep]]
    /\ agent' = IF task[c].outcome = "CancelledError" /\ agent[c].has_cancel_run
                THEN [agent EXCEPT ![c] = CancelRun(@)] ELSE agent
    /\ active_tasks' = [active_tasks EXCEPT ![cid[c]] = 0]
    /\ cancel_flags' = [cancel_flags EXCEPT ![cid[c]] = "absent"]
    /\ task' = [task EXCEPT ![c] = NoTask]
    /\ pc' = [pc EXCEPT ![c] = "p_done"]
    /\ UNCHANGED <<cid, inbox, active_connections, active_agents, lastRefresh, history, logger>>

\* Lines 274-285: a result, if any, is appended to the chat messages and the
\* conversation saved (the history directory is followed in HistorySpec);
\* the handler is back in receive_text.
PromptDone(c) ==
    /\ pc[c] = "p_done"
    /\ pc' = [pc EXCEPT ![c] = "recv"]
    /\ sent' = [sent EXCEPT ![c] = NoSent]
    /\ hist' = [hist EXCEPT ![c].att = NoAttempt]
    /\ UNCHANGED <<cid, inbox, tables, agent, task, lastRefresh, history, logger>>

\* ------------------------------------------------------------ specification

\* Several connections; the capability server's tools do not change and the
\* runs are too short to reach the periodic refresh of think.
Next ==
    \E c \in Conns :
        \/ \E i \in Ids : Connect(c, i, web_max_steps)
        \/ \E listed \in SteadySnapshots : InitializeOk(c, listed, listed)
        \/ \E stage \in {"connect", "list_tools"}, listed \in SteadySnapshots :
               InitializeFail(c, stage, listed)
        \/ ClientSendCancel(c)
        \/ RecvPrompt(c)
        \/ ProcStart(c)
        \/ RunStart(c)
        \/ CancelBeforeStart(c)
        \/ ThinkReturn(c)
        \/ StepContinue(c)
        \/ StepTerminate(c)
        \/ StepRaise(c)
        \/ Interrupt(c)
        \/ RecvCancel(c)
        \/ CancelAnswered(c)
        \/ ProcResume(c)
        \/ PromptDone(c)
        \/ Disconnect(c)
        \/ Cleanup(c)

Spec == Init /\ [][Next]_vars

\* One connection whose capability server changes its tools at will; a cancel
\* event on the connection is read only between runs, so no task is cancelled.
AgentNext ==
    \/ Connect(1, 1, max_steps)
    \/ \E listed \in SteadySnapshots \cup {EmptySnapshot}, cur \in AllSnapshots :
           InitializeOk(1, listed, cur)
    \/ RecvPrompt(1)
    \/ ProcStart(1)
    \/ RunStart(1)
    \/ \E cur \in AllSnapshots : RefreshReturn(1, cur)
    \/ RefreshFail(1)
    \/ ThinkReturn(1)
    \/ StepContinue(1)
    \/ StepTerminate(1)
    \/ StepRaise(1)
    \/ ProcResume(1)
    \/ PromptDone(1)

AgentSpec == Init /\ [][AgentNext]_vars


\* The same, when the event loop keeps running the tasks that are ready and
\* every call of the external step function and of list_tools returns.
FairAgentSpec ==
    /\ AgentSpec
    /\ WF_vars(RunStart(1))
    /\ WF_vars(ThinkReturn(1) \/ StepContinue(1) \/ StepTerminate(1)
               \/ StepRaise(1))
    /\ WF_vars((\E cur \in AllSnapshots : RefreshReturn(1, cur)) \/ RefreshFail(1))

\* One connection on whose agent callbacks that may raise are registered
\* besides the thinking_callback of process_agent_response.
ObserverNext ==
    \/ Connect(1, 1, web_max_steps)
    \/ \E listed \in SteadySnapshots : InitializeOk(1, listed, listed)
    \/ \E raises \in BOOLEAN : RegisterObserver(1, raises)
    \/ RecvPrompt(1)
    \/ ProcStart(1)
    \/ RunStart(1)
    \/ ThinkReturn(1)
    \/ StepContinue(1)
    \/ StepTerminate(1)
    \/ StepRaise(1)
    \/ ProcResume(1)
    \/ PromptDone(1)

ObserverSpec == Init /\ [][ObserverNext]_vars

\* The history store: conversations are saved by the handlers and read back
\* by the /api/history/{history_id} route (lines 122-128), in any order.
HistoryNext ==
    \/ \E client_id \in Ids, messages \in Conversations, history_id \in HistoryIds :
           SaveConversation(client_id, messages, history_id)
    \/ \E history_id \in HistoryIds : GetConversation(history_id)

HistorySpec == Init /\ [][HistoryNext]_vars

\* One connection whose agent is configured with a list of special tools and
\* whose steps call tools.
ToolNext ==
    \/ Connect(1, 1, web_max_steps)
    \/ \E names \in ToolConfigs : ConfigureSpecialTools(1, names)
    \/ \E listed \in SteadySnapshots : InitializeOk(1, listed, listed)
    \/ RecvPrompt(1)
    \/ ProcStart(1)
    \/ RunStart(1)
    \/ \E name \in ToolCallNames : StepToolCall(1, name)
    \/ ThinkReturn(1)
    \/ StepContinue(1)
    \/ ProcResume(1)
    \/ PromptDone(1)

ToolSpec == Init /\ [][ToolNext]_vars

\* Two sessions with client ids of their own run their prompts side by side,
\* and think logs thoughts.
LoggerNext ==
    \E c \in Conns :
        \/ Connect(c, c, web_max_steps)
        \/ \E listed \in SteadySnapshots : InitializeOk(c, listed, listed)
        \/ RecvPrompt(c)
        \/ ProcStart(c)
        \/ RunStart(c)
        \/ LogThought(c)
        \/ ThinkReturn(c)
        \/ StepContinue(c)
        \/ StepTerminate(c)
        \/ StepRaise(c)
        \/ ProcResume(c)
        \/ PromptDone(c)

LoggerSpec == Init /\ [][LoggerNext]_vars

\* ================================================================== claims

RunInFlight(c) == task[c].st \in InFlight
RunEnded(c) == task[c].st = "done"
TerminalEvents(c) == sent[c].response + sent[c].error + sent[c].ack

\* C1: at most one agent run is in flight for a client id, also when the
\* prompts arrive over two connections opened with the same id.
C1_SingleFlight ==
    \A i \in Ids : Cardinality({c \in Conns : cid[c] = i /\ RunInFlight(c)}) <= 1

\* C2 (as stated): once cancel_run has been called on an agent whose run is in
\* flight no new step starts, and the run returns the cancellation result.
C2_CancelReturnsCancelResult ==
    \A c \in Conns :
        /\ ~hist[c].att.stepAfterCancel
        /\ (RunEnded(c) /\ hist[c].att.cancelRunCalled)
              => task[c].outcome = "cancelled_result"

\* C2 (amended): once cancel_run has been called on an agent whose run is in
\* flight no new step starts; the run returns the cancellation result when
\* the step that was executing returns normally, the error text when that
\* step raises, and ends with CancelledError when the cancellation of its
\* task interrupts the step.
C2_NoStepAfterCancel ==
    \A c \in Conns :
        /\ ~hist[c].att.stepAfterCancel
        /\ (RunInFlight(c) /\ hist[c].att.cancelRunCalled) => agent[c].cancelled
        /\ (RunEnded(c) /\ hist[c].att.cancelRunCalled) =>
              task[c].outcome =
                 CASE hist[c].att.lastStep \in {"continue", "terminate"} -> "cancelled_result"
                   [] hist[c].att.lastStep = "raise" -> "error_result"
                   [] OTHER -> "CancelledError"

C2_Witness ==
    \E c \in Conns :
        /\ RunEnded(c) /\ hist[c].att.cancelRunCalled
        /\ hist[c].att.lastStep = "continue"
        /\ task[c].outcome = "cancelled_result"

\* C3: a cancel event a client sends on its own connection while its run is in
\* flight is handled by the cancel branch while that run is still in flight.
C3_CancelHandledInFlight == \A c \in Conns : hist[c].ownCancel # "late"

\* C4: for every prompt handled, the client that sent it receives exactly one
\* terminal event (a response, a termination notice or an error).
C4_ExactlyOneTerminalEvent ==
    \A c \in Conns : pc[c] = "p_done" => TerminalEvents(c) = 1

\* C5: when the list fetched by the refresh of a run is empty the run stops:
\* the agent is FINISHED and no decision function executes any more.
C5_EmptyListStopsRun ==
    \A c \in Conns :
        hist[c].att.refreshedEmpty => (RunEnded(c) /\ task[c].reason = "finished")

\* C6: the refresh computes added = current minus previous names, removed =
\* previous minus current names, changed = the common names whose
\* fingerprints differ; the three are pairwise disjoint and the stored
\* snapshot is the current one; {a,b} -> {b,c} gives ({c}, {a}, {}).
C6_RefreshDiff ==
    LET r == lastRefresh IN
    r.agent # 0 =>
        /\ \A n \in ToolNames :
              /\ n \in r.added <=> (n \in DOMAIN r.cur /\ n \notin DOMAIN r.prev)
              /\ n \in r.removed <=> (n \in DOMAIN r.prev /\ n \notin DOMAIN r.cur)
              /\ n \in r.changed <=>
                    (n \in DOMAIN r.cur /\ n \in DOMAIN r.prev /\ r.cur[n] # r.prev[n])
        /\ r.added \cup r.removed \cup r.changed \subseteq ToolNames
        /\ r.added \cap r.removed = {}
        /\ r.added \cap r.changed = {}
        /\ r.removed \cap r.changed = {}
        /\ agent[r.agent].tool_schemas = r.cur
        /\ (DOMAIN r.prev = {"a", "b"} /\ DOMAIN r.cur = {"b", "c"}
               /\ r.prev["b"] = r.cur["b"])
              => (r.added = {"c"} /\ r.removed = {"a"} /\ r.changed = {})

C6_Witness ==
    /\ lastRefresh.agent = 1 /\ agent[1].current_step = refresh_tools_interval
    /\ DOMAIN lastRefresh.prev = {"a", "b"} /\ DOMAIN lastRefresh.cur = {"b", "c"}
    /\ lastRefresh.prev["b"] = lastRefresh.cur["b"]
    /\ lastRefresh.added = {"c"} /\ lastRefresh.removed = {"a"}
    /\ lastRefresh.changed = {}

\* C7: current_step never exceeds max_steps, and a run that uses up its step
\* budget returns a result that is delivered to the client as a response.
C7_BudgetEndsAsResponse ==
    \A c \in Conns :
        /\ agent[c].current_step <= agent[c].max_steps
        /\ (RunEnded(c) /\ task[c].reason = "budget") => task[c].outcome = "ok"
        /\ (pc[c] = "p_done" /\ hist[c].att.reason = "budget")
              => (hist[c].att.delivered = "response" /\ sent[c].response = 1
                    /\ sent[c].error = 0)

\* C8: a run with a non-empty tool set that is not cancelled, meets no
\* exception and never gets a terminal step result executes exactly
\* max_steps steps.
C8_ExactlyMaxSteps ==
    \A c \in Conns :
        (RunEnded(c) /\ task[c].outcome = "ok" /\ agent[c].tool_map # {}
            /\ hist[c].att.lastStep # "terminate")
          => (hist[c].att.steps = agent[c].max_steps
                /\ agent[c].current_step = agent[c].max_steps)

\* C8: every run terminates when every call of the external step function
\* returns, and a run that nothing ends early executes exactly max_steps steps.
C8_RunTerminates ==
    /\ []C8_ExactlyMaxSteps
    /\ \A c \in Conns : RunInFlight(c) ~> RunEnded(c)

C8_Witness ==
    /\ RunEnded(1) /\ task[1].reason = "budget" /\ task[1].outcome = "ok"
    /\ hist[1].att.steps = max_steps

\* C9: a list_tools failure inside a run's refresh leaves the snapshot as it
\* was and does not end the step loop.
C9_RefreshFailureKeepsRunning ==
    \A c \in Conns : hist[c].att.refreshFailed => task[c].reason # "exception"

\* C10: an exception of the external step function does not leave run, is
\* reported to the client once, as an event of type error and not as a
\* response, and the session is idle again.
C10_StepExceptionReportedAsError ==
    \A c \in Conns :
        /\ (RunEnded(c) /\ hist[c].att.lastStep = "raise") => task[c].outcome # "raised"
        /\ (pc[c] = "p_done" /\ hist[c].att.lastStep = "raise")
              => /\ sent[c].error = 1 /\ sent[c].response = 0
                 /\ agent[c].state # "RUNNING" /\ task[c].st = "none"

\* C11: _notify_thinking calls every registered callback exactly once, in
\* registration order, whichever of them raise; no exception leaves it and
\* the run is not ended by a callback.
C11_NotifyCallsEveryCallback ==
    \A c \in Conns :
        /\ task[c].st \in {"refresh", "think", "done"} =>
              /\ hist[c].att.notified =
                    [k \in 1..Len(hist[c].att.notifiedOn) |-> k]
              /\ task[c].reason # "callback"
        /\ ~NotifyThinking(agent[c]).raised
        /\ NotifyThinking(agent[c]).invoked =
              [k \in 1..Len(agent[c].thinking_callbacks) |-> k]

C11_Witness ==
    /\ task[1].st = "think"
    /\ hist[1].att.notifiedOn = <<TRUE, FALSE, TRUE>>
    /\ hist[1].att.notified = <<1, 2, 3>>

Open(c) == pc[c] \notin {"new", "closed"}

\* C12: a connect with a client id that is already registered is rejected and
\* changes nothing: no two open connections share a client id, and the
\* connection, agent and task entries of an open connection stay its own.
C12_ConnectRejectsRegisteredId ==
    /\ \A c, d \in Conns : (c # d /\ Open(c) /\ Open(d)) => cid[c] # cid[d]
    /\ \A c \in Conns :
          Open(c) => /\ active_connections[cid[c]] = c
                     /\ active_agents[cid[c]] = c
                     /\ RunInFlight(c) => active_tasks[cid[c]] = c

\* C13: a run whose cancellation is requested before any of its steps has
\* executed (its task is cancelled between its creation and its first
\* execution) ends cancelled, with no step executed and the agent's step
\* counter equal to 0, also when it is not the first run of the session.
C13_CancelBeforeFirstStep ==
    \A c \in Conns :
        (RunEnded(c) /\ task[c].reason = "notstarted") =>
            /\ task[c].outcome = "CancelledError"
            /\ hist[c].att.steps = 0
            /\ agent[c].current_step = 0

\* C14: a cancel event handled when no run of the client id is in flight (no
\* entry in active_tasks, or the task is done) changes nothing: the tables,
\* the agents and the tasks are as before, also when it is handled twice,
\* and a run started afterwards does not start cancelled.
C14_IdleCancelIsNoOp ==
    /\ [][\A c \in Conns :
            (/\ pc[c] = "recv" /\ pc'[c] = "c_send"
             /\ (active_tasks[cid[c]] = 0 \/ task[active_tasks[cid[c]]].st = "done"))
            => UNCHANGED <<tables, agent, task>>]_vars
    /\ [][\A c \in Conns :
            (task[c].st = "created" /\ task'[c].st \in {"refresh", "think"})
            => ~agent'[c].cancelled]_vars

C14_Witness ==
    /\ pc[1] = "c_send" /\ active_tasks[cid[1]] # 0
    /\ task[active_tasks[cid[1]]].st = "done"
    /\ cancel_flags[cid[1]] = "False" /\ ~task[active_tasks[cid[1]]].cancelReq

\* C15: however a run ends, when process_agent_response is left the client
\* id has no entry in active_tasks and cancel_flags, the agent carries no
\* cancel function of the run, and ending the run has not changed the
\* agent's tool snapshot.
C15_RunEndReleasesSlot ==
    [][\A c \in Conns :
          (pc[c] = "p_await" /\ pc'[c] = "p_done") =>
              /\ active_tasks'[cid[c]] = 0
              /\ cancel_flags'[cid[c]] = "absent"
              /\ ~agent'[c].has_cancel_run
              /\ task'[c].st = "none"
              /\ agent'[c].tool_schemas = agent[c].tool_schemas]_vars

C15_Witness ==
    \E c \in Conns :
        /\ pc[c] = "p_done" /\ hist[c].att.outcome = "CancelledError"
        /\ hist[c].att.lastStep = "interrupted"
        /\ active_tasks[cid[c]] = 0 /\ cancel_flags[cid[c]] = "absent"
        /\ ~agent[c].has_cancel_run

\* C16: the cleanup of a connection removes a session whose run has been
\* stopped: when it deletes the entries of the client id no run registered
\* under that id is in flight, and after it the capability-server connection
\* is released, the agent has no callbacks and the four tables have no entry
\* for the id.
C16_CleanupStopsRunFirst ==
    [][\A c \in Conns :
          (pc[c] = "cleanup" /\ pc'[c] = "closed") =>
              /\ ~RunInFlight(c)
              /\ active_tasks[cid[c]] # 0 => ~RunInFlight(active_tasks[cid[c]])
              /\ agent'[c].mcp = "none"
              /\ agent'[c].thinking_callbacks = <<>>
              /\ active_connections'[cid[c]] = 0 /\ active_agents'[cid[c]] = 0
              /\ active_tasks'[cid[c]] = 0 /\ cancel_flags'[cid[c]] = "absent"]_vars

\* C17: when the initialization of the agent fails the client is sent an
\* error event, the handler goes to its cleanup without entering the prompt
\* loop, no run task is ever created and the agent never runs, and the
\* cleanup leaves no entry of the client id in any table.
C17_InitFailureEndsSession ==
    /\ [](\A c \in Conns :
            hist[c].initFailed =>
                /\ sent[c].error >= 1
                /\ pc[c] \in {"cleanup", "closed"}
                /\ task[c] = NoTask
                /\ agent[c].state = "IDLE" /\ agent[c].current_step = 0
                /\ active_tasks[cid[c]] # c
                /\ pc[c] = "closed" =>
                      (active_connections[cid[c]] # c /\ active_agents[cid[c]] # c))
    /\ [][\A c \in Conns :
            (hist[c].initFailed /\ pc[c] = "cleanup" /\ pc'[c] = "closed") =>
                /\ active_connections'[cid[c]] = 0 /\ active_agents'[cid[c]] = 0
                /\ active_tasks'[cid[c]] = 0 /\ cancel_flags'[cid[c]] = "absent"]_vars

C17_Witness ==
    \E c \in Conns :
        /\ hist[c].initFailed /\ pc[c] = "closed" /\ sent[c].error >= 1
        /\ agent[c].mcp = "none" /\ active_connections[cid[c]] = 0

\* C18: at every suspension point the tool snapshot of an agent is a
\* complete snapshot: a step of the program either leaves tool_schemas as it
\* was or is a refresh of that agent that replaces it by the whole list
\* just fetched; nothing but _refresh_tools writes it.
C18_SnapshotReplacedAtomically ==
    [][\A c \in Conns :
          agent'[c].tool_schemas # agent[c].tool_schemas =>
              /\ lastRefresh'.agent = c
              /\ lastRefresh'.prev = agent[c].tool_schemas
              /\ agent'[c].tool_schemas = lastRefresh'.cur
              /\ pc[c] = "init" \/ task[c].st = "refresh"]_vars

C18_Witness ==
    /\ task[1].st = "think" /\ agent[1].current_step = refresh_tools_interval
    /\ lastRefresh.agent = 1
    /\ DOMAIN lastRefresh.prev = {"a", "b"} /\ DOMAIN lastRefresh.cur = {"b"}
    /\ lastRefresh.prev["b"] # lastRefresh.cur["b"]
    /\ agent[1].tool_schemas = lastRefresh.cur

\* C19: the cancellation flag of a run is monotonic: while a run stays in
\* flight, the agent's _cancelled flag and the cancel_flags entry of its
\* client id, once true, stay true.
C19_CancelFlagMonotonic ==
    [][\A c \in Conns :
          (RunInFlight(c) /\ task'[c].st \in InFlight) =>
              /\ agent[c].cancelled => agent'[c].cancelled
              /\ (active_tasks[cid[c]] = c /\ cancel_flags[cid[c]] = "True")
                    => cancel_flags'[cid[c]] = "True"]_vars

\* C20: get_conversation of the id save_conversation returned yields a
\* record with the saved messages, in the saved order, and the saving
\* session's client id, whatever was saved before or after it.
C20_HistoryRoundTrip ==
    /\ \A s \in history.saved :
          history.got.id = s.id =>
              /\ history.got.found
              /\ history.got.data.id = s.id
              /\ history.got.data.client_id = s.client_id
              /\ history.got.data.messages = s.messages
    /\ \A f \in history.dir :
          [id |-> f.name, client_id |-> JsonLoad(f.text).client_id,
           messages |-> JsonLoad(f.text).messages] \in history.saved

C20_Witness ==
    /\ Cardinality(history.dir) = 2 /\ history.got.found
    /\ Len(history.got.data.messages) = 2 * MaxPairs
    /\ history.got.data.messages[1].content # history.got.data.messages[3].content
    /\ \E s \in history.saved : s.id # history.got.id

\* C25: every thinking event of a run is sent to the client once: the
\* notification of a run calls one callback, and the agent of a session does
\* not carry one callback per prompt handled so far.
C25_EventDeliveredOnce ==
    \A c \in Conns :
        /\ task[c].st \in {"refresh", "think", "done"} =>
              Len(hist[c].att.notified) = 1
        /\ Len(agent[c].thinking_callbacks) <= 1

\* C22: in a run, the refresh is called before the decision function of a
\* step exactly when the number of steps completed so far in the run is a
\* multiple of the refresh interval: before the 1st, 6th, ... step.
C22_RefreshBeforeFirstStep ==
    \A c \in Conns :
        /\ task[c].st = "refresh" =>
              (agent[c].current_step - 1) % refresh_tools_interval = 0
        /\ task[c].st = "think" =>
              ((agent[c].current_step - 1) % refresh_tools_interval = 0
                  <=> hist[c].att.refreshedAt = agent[c].current_step)

\* C21: a step that calls a tool ends the run exactly when the name of the
\* tool is, case-insensitively, one of the agent's special_tool_names,
\* whatever that list is configured to.
C21_SpecialToolEndsRun ==
    \A c \in Conns :
        hist[c].att.lastTool # "none" =>
            (hist[c].att.toolFinished
                <=> Lower(hist[c].att.lastTool)
                       \in {Lower(n) : n \in agent[c].special_tool_names})

\* C23: the latest thought logged inside a session's think is delivered to the
\* callbacks of that session only, never to those of another session.
C23_ThoughtStaysInSession ==
    \A d \in logger.thought.to : d = logger.thought.from

\* C24: whenever no session's run is inside the patched part of think, the
\* logger's info is the original function, with no interceptor around it.
C24_LoggerRestored ==
    (\A c \in Conns : task[c].st # "think") => logger.info = <<>>

====
